---- MODULE Spec2Model ----
(***************************************************************************)
(* A model of src/app.py: the Live State Table (LIVE), the Tick Engine     *)
(* (live_engine), the intent router (route_intent), the chat and action    *)
(* handlers and the /ws/live subscription stream (ws_live).                *)
(*                                                                         *)
(* The Tick Engine and the connection handlers are tasks of one            *)
(* cooperative event loop: a task runs without interruption from one await *)
(* to the next, so an action of theirs is the code between two consecutive *)
(* awaits of one task.  The table holds, for each field of each entry, the *)
(* stamp of the pass that wrote it.  Three finer views follow the coarse   *)
(* one: the pass store by store, chat statement by statement on its worker *)
(* thread, and the display strings of one template and one stock.          *)
(***************************************************************************)
EXTENDS Integers, Sequences, FiniteSets, TLC

(***************************************************************************)
(* Bounds of the model.                                                    *)
(***************************************************************************)
\* Longest item_ids list a client sends in one subscribe message.
MaxReqLen == 3
\* Tick passes are stamped 1..MaxPass, cyclically; 0 stamps init_live_state.
MaxPass == 1

(***************************************************************************)
(* The catalogs (src/app.py 49-71).  Only the id of an item is modelled:   *)
(* title, subtitle and badges are immutable display text.                  *)
(***************************************************************************)
TEMPLATES == <<"tpl_ig_post", "tpl_resume", "tpl_pitch", "tpl_logo", "tpl_story">>

HOTELS == <<"htl_1", "htl_2", "htl_3", "htl_4", "htl_5">>

STOCKS == <<"stk_RELIANCE", "stk_TCS", "stk_HDFCBANK", "stk_INFOSYS", "stk_ITC">>

Range(s) == {s[k] : k \in DOMAIN s}

CatalogIds == Range(TEMPLATES) \cup Range(HOTELS) \cup Range(STOCKS)

(***************************************************************************)
(* Python dict operations on the Live State Table.                         *)
(***************************************************************************)
EmptyDict == [i \in {} |-> 0]

\* d[k] = v : inserts the key when absent, overwrites it when present.
DictSet(d, k, v) == [x \in (DOMAIN d) \cup {k} |-> IF x = k THEN v ELSE d[x]]

\* A LiveEntry whose three fields were written with stamp p.
Entry(p) == [primary_value |-> p, secondary_value |-> p, updated_at |-> p]

\* for x in items: LIVE[x["id"]] = {...}
RECURSIVE AssignAll(_, _, _)
AssignAll(d, items, p) ==
    IF items = <<>> THEN d
    ELSE AssignAll(DictSet(d, Head(items), Entry(p)), Tail(items), p)

\* for x in items: v = LIVE[x["id"]]; v[field] = ...  (mutation in place: the
\* key must be there already, and no key is created)
RECURSIVE MutateAll(_, _, _)
MutateAll(d, items, p) ==
    IF items = <<>> THEN d
    ELSE MutateAll([d EXCEPT ![Head(items)] = Entry(p)], Tail(items), p)

\* init_live_state(), run once at import (line 107), on the empty LIVE.
init_live_state ==
    AssignAll(AssignAll(AssignAll(EmptyDict, TEMPLATES, 0), HOTELS, 0), STOCKS, 0)

\* Mutant of TickPass: the hotel entries are stored under the hotels' titles.
TickPassByTitle(d, p) ==
    MutateAll(AssignAll(MutateAll(d, TEMPLATES, p),
                        <<"Lakeview Residency", "City Central Hotel", "Beachside Retreat",
                          "Heritage Palace", "Budget Stay Plus">>, p),
              STOCKS, p)

\* One pass of live_engine's loop body over the table d, stamped p.
TickPass(d, p) ==
    MutateAll(AssignAll(MutateAll(d, TEMPLATES, p), HOTELS, p), STOCKS, p)

(***************************************************************************)
(* The /ws/live protocol: frames and messages.                            *)
(***************************************************************************)
\* The connections of the model; each is one invocation of ws_live.
AllConns == {"c1", "c2"}

\* Ids a client asks for: two catalog ids and one id unknown to LIVE.
ReqIds == {"htl_1", "stk_TCS", "zzz"}

ReqLists == UNION {[1..n -> ReqIds] : n \in 0..MaxReqLen}

\* A text frame sent by the client, described by what json.loads makes of it:
\*   text      "malformed" (not JSON) or "json"
\*   kind      the JSON value's kind: "object", or "array" for any other value
\*   type      the object's "type" member, "absent" when it has none
\*   ids_kind  the kind of the object's "item_ids" member: "absent" (also null),
\*             "number" (a non-zero number) or "array" (a list of strings)
\*   item_ids  the strings of that list
Frame(text, kind, type, ids_kind, item_ids) ==
    [text |-> text, kind |-> kind, type |-> type, ids_kind |-> ids_kind,
     item_ids |-> item_ids]

MalformedFrames == {Frame("malformed", "none", "absent", "absent", <<>>)}

NonObjectFrames == {Frame("json", "array", "absent", "absent", <<>>)}

OtherTypeFrames ==
    {Frame("json", "object", t, "absent", <<>>) : t \in {"absent", "ping"}}

SubscribeFrames ==
    {Frame("json", "object", "subscribe", "array", l) : l \in ReqLists}
    \cup {Frame("json", "object", "subscribe", k, <<>>) : k \in {"absent", "number"}}

Frames == MalformedFrames \cup NonObjectFrames \cup OtherTypeFrames \cup SubscribeFrames

\* Messages the server sends.
NoMsg == [type |-> "none", item_ids |-> <<>>, data |-> EmptyDict]

SubscribedMsg(ids) == [type |-> "subscribed", item_ids |-> ids, data |-> EmptyDict]

UpdateMsg(snap) == [type |-> "update", item_ids |-> <<>>, data |-> snap]

VARIABLES
    LIVE,          \* the Live State Table: item id -> LiveEntry
    pass,          \* stamp of the last completed tick pass (0: none yet)
    wsState,       \* per connection: "Idle", "Open", "Closed" or "Failed"
    pc,            \* per connection: the await the handler is suspended at
    subscribed,    \* per connection: ws_live's local list `subscribed`
    inbox,         \* per connection: client frames not yet received
    clientClosed,  \* per connection: the client has closed the socket
    outmsg,        \* per connection: the message of the pending send_text
    sentIter,      \* per connection: messages sent in the current iteration
    replaced,      \* per connection: ids the last subscribe took out of `subscribed`
    chatReq,       \* the message of the last POST /api/chat
    chatResp       \* the response to it

\* The text of one stock's and one template's LiveEntry, and live_engine's
\* locals that compute it.
VARIABLES
    stockEntry,    \* LIVE[s["id"]] of one stock: its two display strings
    tplEntry,      \* LIVE[t["id"]] of one template: its two display strings
    old,           \* live_engine's local `old` (line 228), in thousandths
    uses,          \* live_engine's local `uses` (lines 211-212)
    ticks          \* passes made over these two entries

numVars == <<stockEntry, tplEntry, old, uses, ticks>>

\* The Tick Engine store by store.
VARIABLES
    tickPos,       \* stores of the running pass already made; 0: at the sleep
    engineTask     \* the task of live_engine: "running" or "failed"

stepVars == <<tickPos, engineTask>>

\* chat(req) statement by statement, on its worker thread.
VARIABLES
    chatPhase,     \* the statement the thread is at; "idle": no call under way
    chatIntent,    \* chat's local `intent` (line 161)
    chatTodo,      \* ids of the sampled items not yet built, next one first
    itemLive,      \* build_item's local `live` (line 111)
    item,          \* the item build_item is making
    chatItems      \* the items made so far

threadVars == <<chatPhase, chatIntent, chatTodo, itemLive, item, chatItems>>

VARIABLES
    actionResp     \* the response to the last POST /api/action

\* The variables the stream protocol and the chat handler leave alone.
otherVars == <<numVars, stepVars, threadVars, actionResp>>

vars == <<LIVE, pass, wsState, pc, subscribed, inbox, clientClosed,
          outmsg, sentIter, replaced, chatReq, chatResp, otherVars>>

wsVars == <<wsState, pc, subscribed, inbox, clientClosed, outmsg, sentIter, replaced>>

chatVars == <<chatReq, chatResp>>

(***************************************************************************)
(* ws_live (src/app.py 243-270).                                           *)
(***************************************************************************)
\* line 261: [i for i in requested if i in LIVE]
FilterKnown(req, live) == SelectSeq(req, LAMBDA i : i \in DOMAIN live)

\* Mutant of Snapshot: the whole table is pushed.
SnapshotWholeTable(sub, live) == live

\* line 267: {i: LIVE[i] for i in subscribed if i in LIVE}
Snapshot(sub, live) == [i \in Range(sub) \cap DOMAIN live |-> live[i]]

\* line 260: requested = data.get("item_ids") or []
Requested(msg) == IF msg.ids_kind = "array" THEN msg.item_ids ELSE <<>>

\* Mutant of OnText: a subscribe adds to the subscription instead of
\* replacing it.
OnTextMerging(msg, sub, live) ==
    IF msg.text = "malformed"
    THEN [exc |-> "JSONDecodeError", subscribe |-> FALSE, subscribed |-> sub]
    ELSE IF msg.kind # "object"
    THEN [exc |-> "AttributeError", subscribe |-> FALSE, subscribed |-> sub]
    ELSE IF msg.type # "subscribe"
    THEN [exc |-> "none", subscribe |-> FALSE, subscribed |-> sub]
    ELSE IF msg.ids_kind = "number"
    THEN [exc |-> "TypeError", subscribe |-> TRUE, subscribed |-> sub]
    ELSE [exc |-> "none", subscribe |-> TRUE,
          subscribed |-> sub \o FilterKnown(Requested(msg), live)]

\* Mutant of OnText: a message of another type empties the subscription.
OnTextResetting(msg, sub, live) ==
    IF msg.text = "malformed"
    THEN [exc |-> "JSONDecodeError", subscribe |-> FALSE, subscribed |-> sub]
    ELSE IF msg.kind # "object"
    THEN [exc |-> "AttributeError", subscribe |-> FALSE, subscribed |-> sub]
    ELSE IF msg.type # "subscribe"
    THEN [exc |-> "none", subscribe |-> FALSE, subscribed |-> <<>>]
    ELSE IF msg.ids_kind = "number"
    THEN [exc |-> "TypeError", subscribe |-> TRUE, subscribed |-> sub]
    ELSE [exc |-> "none", subscribe |-> TRUE,
          subscribed |-> FilterKnown(Requested(msg), live)]

\* Mutant of OnText: a subscribe that accepts no id is not confirmed.
OnTextQuietWhenEmpty(msg, sub, live) ==
    IF msg.text = "malformed"
    THEN [exc |-> "JSONDecodeError", subscribe |-> FALSE, subscribed |-> sub]
    ELSE IF msg.kind # "object"
    THEN [exc |-> "AttributeError", subscribe |-> FALSE, subscribed |-> sub]
    ELSE IF msg.type # "subscribe"
    THEN [exc |-> "none", subscribe |-> FALSE, subscribed |-> sub]
    ELSE IF msg.ids_kind = "number"
    THEN [exc |-> "TypeError", subscribe |-> TRUE, subscribed |-> sub]
    ELSE [exc |-> "none", subscribe |-> FilterKnown(Requested(msg), live) # <<>>,
          subscribed |-> FilterKnown(Requested(msg), live)]

\* lines 258-261 on a received text: the exception raised ("none" when none),
\* whether the message is a subscribe, and the new `subscribed`.
OnText(msg, sub, live) ==
    IF msg.text = "malformed"
    THEN [exc |-> "JSONDecodeError", subscribe |-> FALSE, subscribed |-> sub]
    ELSE IF msg.kind # "object"
    THEN [exc |-> "AttributeError", subscribe |-> FALSE, subscribed |-> sub]
    ELSE IF msg.type # "subscribe"
    THEN [exc |-> "none", subscribe |-> FALSE, subscribed |-> sub]
    ELSE IF msg.ids_kind = "number"
    THEN [exc |-> "TypeError", subscribe |-> TRUE, subscribed |-> sub]
    ELSE [exc |-> "none", subscribe |-> TRUE,
          subscribed |-> FilterKnown(Requested(msg), live)]

\* What the try/except blocks do with an exception raised in the loop body:
\* line 263 catches TimeoutError, line 269 WebSocketDisconnect, the rest leaves.
Handle(exc) ==
    CASE exc = "none" -> "continue"
      [] exc = "TimeoutError" -> "continue"
      [] exc = "WebSocketDisconnect" -> "return"
      [] OTHER -> "propagate"

\* The state of the connection after an exception was handled that way.
StateAfter(how) ==
    CASE how = "continue" -> "Open"
      [] how = "return" -> "Closed"
      [] OTHER -> "Failed"

\* Mutant of RecvResult: the receive has no timeout and waits for the client.
RecvResultNoTimeout(c) ==
    IF inbox[c] # <<>> THEN "none"
    ELSE IF clientClosed[c] THEN "WebSocketDisconnect"
    ELSE "blocked"

\* line 257: await asyncio.wait_for(ws.receive_text(), timeout=0.25) ends
\* with a frame ("none"), with the client's closure, or with the timeout.
RecvResult(c) ==
    IF inbox[c] # <<>> THEN "none"
    ELSE IF clientClosed[c] THEN "WebSocketDisconnect"
    ELSE "TimeoutError"

\* await ws.send_text(...) on a connection the client has closed
SendResult(c) == IF clientClosed[c] THEN "WebSocketDisconnect" ELSE "none"

\* The handler of connection c ends: its locals and unread frames are dropped.
Exit(c, how) ==
    /\ wsState' = [wsState EXCEPT ![c] = StateAfter(how)]
    /\ pc' = [pc EXCEPT ![c] = "done"]
    /\ inbox' = [inbox EXCEPT ![c] = <<>>]
    /\ outmsg' = [outmsg EXCEPT ![c] = NoMsg]

\* Mutant of Push: the subscription is one list shared by the connections.
RECURSIVE Shared(_)
Shared(cs) ==
    IF cs = {} THEN <<>>
    ELSE LET c == CHOOSE x \in cs : TRUE IN subscribed[c] \o Shared(cs \ {c})

PushShared(c, sub) ==
    IF sub # <<>>
    THEN /\ pc' = [pc EXCEPT ![c] = "send_update"]
         /\ outmsg' = [outmsg EXCEPT ![c] = UpdateMsg(Snapshot(Shared(AllConns), LIVE))]
    ELSE /\ pc' = [pc EXCEPT ![c] = "recv"]
         /\ outmsg' = [outmsg EXCEPT ![c] = NoMsg]

\* Mutant of Push: the update is built and sent whatever the subscription.
PushAlways(c, sub) ==
    /\ pc' = [pc EXCEPT ![c] = "send_update"]
    /\ outmsg' = [outmsg EXCEPT ![c] = UpdateMsg(Snapshot(sub, LIVE))]

\* lines 266-268 up to the await: with a non-empty subscription build the
\* snapshot and start sending it, else go back to the receive of line 257.
Push(c, sub) ==
    IF sub # <<>>
    THEN /\ pc' = [pc EXCEPT ![c] = "send_update"]
         /\ outmsg' = [outmsg EXCEPT ![c] = UpdateMsg(Snapshot(sub, LIVE))]
    ELSE /\ pc' = [pc EXCEPT ![c] = "recv"]
         /\ outmsg' = [outmsg EXCEPT ![c] = NoMsg]

\* line 251-252: await ws.accept(); subscribed = []
Accept(c) ==
    /\ wsState[c] = "Idle"
    /\ wsState' = [wsState EXCEPT ![c] = "Open"]
    /\ pc' = [pc EXCEPT ![c] = "recv"]
    /\ subscribed' = [subscribed EXCEPT ![c] = <<>>]
    /\ UNCHANGED <<LIVE, pass, inbox, clientClosed, outmsg, sentIter, replaced, chatVars, otherVars>>

\* lines 255-266: one loop iteration from the receive to its next await.
Receive(c) ==
    /\ wsState[c] = "Open"
    /\ pc[c] = "recv"
    /\ RecvResult(c) # "blocked"
    /\ sentIter' = [sentIter EXCEPT ![c] = <<>>]
    /\ LET got == RecvResult(c) IN
       IF Handle(got) # "continue"
       THEN /\ Exit(c, Handle(got))
            /\ UNCHANGED <<subscribed, replaced>>
       ELSE IF got = "TimeoutError"
       THEN /\ Push(c, subscribed[c])
            /\ UNCHANGED <<wsState, inbox, subscribed, replaced>>
       ELSE LET r == OnText(Head(inbox[c]), subscribed[c], LIVE) IN
            IF Handle(r.exc) # "continue"
            THEN /\ Exit(c, Handle(r.exc))
                 /\ UNCHANGED <<subscribed, replaced>>
            ELSE /\ inbox' = [inbox EXCEPT ![c] = Tail(inbox[c])]
                 /\ subscribed' = [subscribed EXCEPT ![c] = r.subscribed]
                 /\ UNCHANGED wsState
                 /\ IF r.subscribe
                    THEN /\ pc' = [pc EXCEPT ![c] = "send_subscribed"]
                         /\ outmsg' = [outmsg EXCEPT ![c] = SubscribedMsg(r.subscribed)]
                         /\ replaced' = [replaced EXCEPT ![c] =
                                Range(subscribed[c]) \ Range(Requested(Head(inbox[c])))]
                    ELSE /\ Push(c, r.subscribed)
                         /\ UNCHANGED replaced
    /\ UNCHANGED <<LIVE, pass, clientClosed, chatVars, otherVars>>

\* line 262 completes: the confirmation is sent, then lines 266-268.
SendSubscribed(c) ==
    /\ wsState[c] = "Open"
    /\ pc[c] = "send_subscribed"
    /\ IF Handle(SendResult(c)) # "continue"
       THEN /\ Exit(c, Handle(SendResult(c)))
            /\ UNCHANGED sentIter
       ELSE /\ sentIter' = [sentIter EXCEPT ![c] = Append(sentIter[c], outmsg[c])]
            /\ Push(c, subscribed[c])
            /\ UNCHANGED <<wsState, inbox>>
    /\ UNCHANGED <<LIVE, pass, subscribed, replaced, clientClosed, chatVars, otherVars>>

\* line 268 completes: the update is sent and the loop starts over.
SendUpdate(c) ==
    /\ wsState[c] = "Open"
    /\ pc[c] = "send_update"
    /\ IF Handle(SendResult(c)) # "continue"
       THEN /\ Exit(c, Handle(SendResult(c)))
            /\ UNCHANGED sentIter
       ELSE /\ sentIter' = [sentIter EXCEPT ![c] = Append(sentIter[c], outmsg[c])]
            /\ pc' = [pc EXCEPT ![c] = "recv"]
            /\ outmsg' = [outmsg EXCEPT ![c] = NoMsg]
            /\ UNCHANGED <<wsState, inbox>>
    /\ UNCHANGED <<LIVE, pass, subscribed, replaced, clientClosed, chatVars, otherVars>>

(***************************************************************************)
(* The client of a connection.                                             *)
(***************************************************************************)
\* The client sends frame f; it sends its next frame once the handler has
\* received this one, so the handler finds at most one frame per receive.
ClientSend(c, f) ==
    /\ wsState[c] = "Open"
    /\ ~clientClosed[c]
    /\ inbox[c] = <<>>
    /\ inbox' = [inbox EXCEPT ![c] = Append(inbox[c], f)]
    /\ UNCHANGED <<LIVE, pass, wsState, pc, subscribed, clientClosed,
                   outmsg, sentIter, replaced, chatVars, otherVars>>

ClientClose(c) ==
    /\ wsState[c] = "Open"
    /\ ~clientClosed[c]
    /\ clientClosed' = [clientClosed EXCEPT ![c] = TRUE]
    /\ UNCHANGED <<LIVE, pass, wsState, pc, subscribed, inbox,
                   outmsg, sentIter, replaced, chatVars, otherVars>>

(***************************************************************************)
(* live_engine (src/app.py 206-235): one pass, from one sleep to the next. *)
(***************************************************************************)
NextPass(p) == (p % MaxPass) + 1

live_engine ==
    /\ LIVE' = TickPass(LIVE, NextPass(pass))
    /\ pass' = NextPass(pass)
    /\ UNCHANGED <<wsVars, chatVars, otherVars>>

(***************************************************************************)
(* live_engine store by store.  A pass is a sequence of stores into LIVE:  *)
(* three field stores into the entry of each template and of each stock    *)
(* (lines 213-215, 231-233), one store of a new entry for each hotel       *)
(* (line 220).                                                             *)
(***************************************************************************)
FieldStores(id) ==
    <<[id |-> id, field |-> "primary_value"],
      [id |-> id, field |-> "secondary_value"],
      [id |-> id, field |-> "updated_at"]>>

EntryStore(id) == <<[id |-> id, field |-> "entry"]>>

\* The stores of a for loop over items: field by field, or entry by entry.
RECURSIVE StoresOf(_, _)
StoresOf(items, fieldwise) ==
    IF items = <<>> THEN <<>>
    ELSE (IF fieldwise THEN FieldStores(Head(items)) ELSE EntryStore(Head(items)))
         \o StoresOf(Tail(items), fieldwise)

\* Mutant of Stores: the pass leaves the hotels out.
StoresWithoutHotels == StoresOf(TEMPLATES, TRUE) \o StoresOf(STOCKS, TRUE)

\* The stores of one pass, in the order of lines 209-233.
Stores ==
    StoresOf(TEMPLATES, TRUE) \o StoresOf(HOTELS, FALSE) \o StoresOf(STOCKS, TRUE)

\* One store of the pass stamped p into the table d.
Store(d, st, p) ==
    IF st.field = "entry" THEN DictSet(d, st.id, Entry(p))
    ELSE [d EXCEPT ![st.id][st.field] = p]

\* Mutant of Suspended: the pass awaits between any two stores.
SuspendedAnywhere(pos) == TRUE

\* The Tick Engine is suspended, so that the event loop can run another task:
\* its only await is the sleep of line 235, after the last store of a pass.
Suspended(pos) == pos = 0

\* The next store of the running pass; after the last one the pass is
\* complete and the engine is at its sleep.
live_engine_store ==
    /\ engineTask = "running"
    /\ LIVE' = Store(LIVE, Stores[tickPos + 1], NextPass(pass))
    /\ IF tickPos + 1 = Len(Stores)
       THEN /\ tickPos' = 0
            /\ pass' = NextPass(pass)
       ELSE /\ tickPos' = tickPos + 1
            /\ UNCHANGED pass
    /\ UNCHANGED <<wsVars, chatVars, numVars, threadVars, engineTask, actionResp>>

\* What live_engine does with an exception raised in its loop body: lines
\* 206-235 hold no try statement, so the exception leaves the while loop.
EngineHandle(exc) == "propagate"

\* The statement that recomputes the next store's item raises exc instead of
\* storing.
live_engine_raises(exc) ==
    /\ engineTask = "running"
    /\ engineTask' = IF EngineHandle(exc) = "propagate" THEN "failed" ELSE "running"
    /\ UNCHANGED <<LIVE, pass, tickPos, wsVars, chatVars, numVars, threadVars, actionResp>>

(***************************************************************************)
(* route_intent (src/app.py 139-150).  A message is a sequence of          *)
(* one-character strings.                                                  *)
(***************************************************************************)
\* Most fragments a chat message is made of.
MaxWords == 2

UpperCase == <<"A", "B", "C", "D", "E", "F", "G", "H", "I", "J", "K", "L", "M", "N", "O", "P", "Q", "R", "S", "T", "U", "V", "W", "X", "Y", "Z">>

LowerCase == <<"a", "b", "c", "d", "e", "f", "g", "h", "i", "j", "k", "l", "m", "n", "o", "p", "q", "r", "s", "t", "u", "v", "w", "x", "y", "z">>

Whitespace == {" ", "\t", "\n"}

\* str.lower(), one character
LowerChar(ch) ==
    IF \E k \in DOMAIN UpperCase : UpperCase[k] = ch
    THEN LowerCase[CHOOSE k \in DOMAIN UpperCase : UpperCase[k] = ch]
    ELSE ch

\* str.lower()
Lower(s) == [k \in DOMAIN s |-> LowerChar(s[k])]

\* str.strip(): leading and trailing whitespace removed
Strip(s) ==
    LET inner == {k \in DOMAIN s : s[k] \notin Whitespace}
    IN  IF inner = {} THEN <<>>
        ELSE SubSeq(s, CHOOSE a \in inner : \A b \in inner : a <= b,
                       CHOOSE a \in inner : \A b \in inner : a >= b)

\* k in q, on strings: k occurs in q as a substring
Contains(k, q) == \E i \in 0..(Len(q) - Len(k)) : SubSeq(q, i + 1, i + Len(k)) = k

\* any(k in q for k in keys)
AnyIn(keys, q) == \E j \in DOMAIN keys : Contains(keys[j], q)

\* line 142
TemplateKeys ==
    <<<<"t", "e", "m", "p", "l", "a", "t", "e">>,
      <<"d", "e", "s", "i", "g", "n">>,
      <<"c", "a", "n", "v", "a">>,
      <<"p", "o", "s", "t", "e", "r">>,
      <<"r", "e", "s", "u", "m", "e">>,
      <<"l", "o", "g", "o">>,
      <<"s", "t", "o", "r", "y">>>>

\* line 144
HotelKeys ==
    <<<<"h", "o", "t", "e", "l">>,
      <<"b", "o", "o", "k", "i", "n", "g">>,
      <<"s", "t", "a", "y">>,
      <<"r", "o", "o", "m">>,
      <<"g", "o", "a">>,
      <<"m", "u", "m", "b", "a", "i">>,
      <<"d", "e", "l", "h", "i">>,
      <<"b", "a", "n", "g", "a", "l", "o", "r", "e">>,
      <<"b", "e", "n", "g", "a", "l", "u", "r", "u">>,
      <<"j", "a", "i", "p", "u", "r">>>>

\* line 146
StockKeys ==
    <<<<"s", "t", "o", "c", "k">>,
      <<"p", "r", "i", "c", "e">>,
      <<"b", "u", "y">>,
      <<"s", "e", "l", "l">>,
      <<"n", "s", "e">>,
      <<"r", "e", "l", "i", "a", "n", "c", "e">>,
      <<"t", "c", "s">>,
      <<"h", "d", "f", "c">>,
      <<"i", "n", "f", "y">>,
      <<"i", "t", "c">>>>

\* line 148
AllKeys ==
    <<<<"a", "l", "l">>,
      <<"e", "v", "e", "r", "y", "t", "h", "i", "n", "g">>,
      <<"e", "x", "p", "l", "o", "r", "e">>,
      <<"d", "i", "s", "c", "o", "v", "e", "r">>>>

\* Mutant of route_intent: the stock keywords are tested before the hotel ones.
route_intent_stocks_first(message) ==
    LET q == Lower(Strip(message)) IN
    IF AnyIn(TemplateKeys, q) THEN "templates"
    ELSE IF AnyIn(StockKeys, q) THEN "stocks"
    ELSE IF AnyIn(HotelKeys, q) THEN "hotels"
    ELSE IF AnyIn(AllKeys, q) THEN "all"
    ELSE "all"

route_intent(message) ==
    LET q == Lower(Strip(message)) IN
    IF AnyIn(TemplateKeys, q) THEN "templates"
    ELSE IF AnyIn(HotelKeys, q) THEN "hotels"
    ELSE IF AnyIn(StockKeys, q) THEN "stocks"
    ELSE IF AnyIn(AllKeys, q) THEN "all"
    ELSE "all"

(***************************************************************************)
(* POST /api/chat (src/app.py 110-122, 159-188).                           *)
(***************************************************************************)
\* build_item: the two live values of one item (the other members of the item
\* are the catalog's immutable text and the fixed actions)
build_item(id, live) ==
    IF id \in DOMAIN live
    THEN [primary_value |-> live[id].primary_value,
          secondary_value |-> live[id].secondary_value]
    ELSE [primary_value |-> "-", secondary_value |-> "-"]

\* The carousel ids of the response, in the order lines 165-184 append them.
Carousels(intent) ==
    (IF intent \in {"templates", "all"} THEN <<"templates">> ELSE <<>>)
    \o (IF intent \in {"hotels", "all"} THEN <<"hotels">> ELSE <<>>)
    \o (IF intent \in {"stocks", "all"} THEN <<"stocks">> ELSE <<>>)

CatalogOf(carousel_id) ==
    CASE carousel_id = "templates" -> TEMPLATES
      [] carousel_id = "hotels" -> HOTELS
      [] OTHER -> STOCKS

NoResp == [intent |-> "none", carousels |-> <<>>, items |-> EmptyDict]

\* chat(req): the response, with the live values read from `live`.
\* random.sample(catalog, k=min(5, len(catalog))) is a permutation of the whole
\* catalog: the items are one per id of the chosen catalogs, and their order
\* within a carousel, which is the sample's, is left out.
ChatResponse(message, live) ==
    LET intent == route_intent(message)
        cs == Carousels(intent)
        ids == UNION {Range(CatalogOf(cs[k])) : k \in DOMAIN cs}
    IN  [intent |-> intent, carousels |-> cs,
         items |-> [i \in ids |-> build_item(i, live)]]

\* The fragments chat messages are made of.
Fragments ==
    {<<"s", "h", "o", "w", " ", "m", "e", " ">>,
     <<"h", "o", "t", "e", "l", "s", " ", "i", "n", " ", "g", "o", "a">>,
     <<"S", "t", "o", "c", "k">>,
     <<"h", "i", "s", "t", "o", "r", "y">>,
     <<"w", "a", "l", "l", "e", "t">>,
     <<" ">>,
     <<"b", "u", "y">>,
     <<"L", "O", "G", "O">>,
     <<"x", "y", "z">>,
     <<"h", "o">>,
     <<"t", "e", "l">>}

RECURSIVE Concat(_)
Concat(ws) == IF ws = <<>> THEN <<>> ELSE Head(ws) \o Concat(Tail(ws))

\* Every message of at most MaxWords fragments.
RouteMessages == {Concat(ws) : ws \in UNION {[1..n -> Fragments] : n \in 0..MaxWords}}

ShowMeHotelsInGoa == <<"s", "h", "o", "w", " ", "m", "e", " ", "h", "o", "t", "e", "l", "s", " ", "i", "n", " ", "g", "o", "a">>

\* The messages posted while the stream protocol runs.
FewMessages == {ShowMeHotelsInGoa, <<"b", "u", "y">>}

\* A client posts {"message": m} to /api/chat.
ChatPost(m) ==
    /\ chatResp.intent # "pending"
    /\ chatReq' = m
    /\ chatResp' = [NoResp EXCEPT !.intent = "pending"]
    /\ UNCHANGED <<LIVE, pass, wsVars, otherVars>>

\* Mutant of chat: the values built for the response are stored back.
chatStoringItems ==
    /\ chatResp.intent = "pending"
    /\ chatResp' = ChatResponse(chatReq, LIVE)
    /\ LIVE' = [i \in DOMAIN LIVE |->
                  IF i \in DOMAIN chatResp'.items THEN chatResp'.items[i] ELSE LIVE[i]]
    /\ UNCHANGED <<pass, wsVars, chatReq, otherVars>>

\* chat(req) runs and returns.
chat ==
    /\ chatResp.intent = "pending"
    /\ chatResp' = ChatResponse(chatReq, LIVE)
    /\ UNCHANGED <<LIVE, pass, wsVars, chatReq, otherVars>>

(***************************************************************************)
(* POST /api/action (src/app.py 191-202).                                  *)
(***************************************************************************)
\* Payloads of a card button: a JSON object with or without its two members.
Payloads ==
    {[item_id |-> "htl_1", action |-> "BOOK"], [item_id |-> "None", action |-> "None"]}

\* action(payload): the two members are read and echoed in the message.
action(payload) ==
    /\ actionResp' = [ok |-> TRUE, action_name |-> payload.action,
                      item_id |-> payload.item_id]
    /\ UNCHANGED <<LIVE, pass, wsVars, chatVars, numVars, stepVars, threadVars>>

(***************************************************************************)
(* chat(req) on its worker thread.  chat is a plain `def` endpoint (line   *)
(* 160), which the framework calls on a thread of its pool and not on the  *)
(* event loop: the interpreter can switch between that thread and the      *)
(* event loop's between any two statements.                                *)
(***************************************************************************)
\* An item whose dict object live_engine mutates field by field (lines
\* 210-215, 231-233); a hotel's is replaced by a new object (line 220).
InPlace(id) == id \in Range(TEMPLATES) \cup Range(STOCKS)

NoLive == [id |-> "none", known |-> FALSE, shared |-> FALSE, fields |-> Entry(0)]

NoItem == [primary_value |-> "-", secondary_value |-> "-"]

\* line 111: live = LIVE.get(base["id"], {}).  The local refers to the dict
\* object found: `shared` while live_engine keeps mutating that object, else
\* `fields` holds what the object, out of the table since, still contains.
GetLive(id, table) ==
    IF id \in DOMAIN table
    THEN [id |-> id, known |-> TRUE, shared |-> InPlace(id), fields |-> table[id]]
    ELSE [NoLive EXCEPT !.id = id]

\* lines 119-120: live.get(field, "-")
LiveGet(l, field, table) ==
    IF ~l.known THEN "-"
    ELSE IF l.shared THEN table[l.id][field]
    ELSE l.fields[field]

Reverse(q) == [k \in DOMAIN q |-> q[Len(q) + 1 - k]]

\* Draws of random.sample(catalog, k=5) (lines 171, 177, 183): two of the
\* orders it returns.
Samples(catalog) == {catalog, Reverse(catalog)}

\* The ids of the items of the carousels cs, each carousel in a sampled order.
RECURSIVE SampledIds(_)
SampledIds(cs) ==
    IF cs = <<>> THEN {<<>>}
    ELSE {a \o b : a \in Samples(CatalogOf(Head(cs))), b \in SampledIds(Tail(cs))}

\* lines 161-184 before the first item: the intent is routed and the items of
\* its carousels are sampled.
chat_route ==
    /\ chatResp.intent = "pending"
    /\ chatPhase = "idle"
    /\ chatIntent' = route_intent(chatReq)
    /\ chatTodo' \in SampledIds(Carousels(chatIntent'))
    /\ chatPhase' = "get"
    /\ chatItems' = EmptyDict
    /\ UNCHANGED <<LIVE, pass, wsVars, chatVars, numVars, stepVars, itemLive, item, actionResp>>

\* line 111 for the next item.
build_item_live ==
    /\ chatPhase = "get"
    /\ itemLive' = GetLive(Head(chatTodo), LIVE)
    /\ chatPhase' = "primary_value"
    /\ UNCHANGED <<LIVE, pass, wsVars, chatVars, numVars, stepVars,
                   chatIntent, chatTodo, item, chatItems, actionResp>>

\* line 119
build_item_primary ==
    /\ chatPhase = "primary_value"
    /\ item' = [NoItem EXCEPT !.primary_value = LiveGet(itemLive, "primary_value", LIVE)]
    /\ chatPhase' = "secondary_value"
    /\ UNCHANGED <<LIVE, pass, wsVars, chatVars, numVars, stepVars,
                   chatIntent, chatTodo, itemLive, chatItems, actionResp>>

\* line 120 and the return of the item, whose locals end with it; after the
\* last item, lines 186-188: chat returns the response.
build_item_secondary ==
    /\ chatPhase = "secondary_value"
    /\ LET built == DictSet(chatItems, Head(chatTodo),
                            [item EXCEPT !.secondary_value =
                                LiveGet(itemLive, "secondary_value", LIVE)])
       IN  IF Tail(chatTodo) = <<>>
           THEN /\ chatPhase' = "idle"
                /\ chatResp' = [intent |-> chatIntent,
                                carousels |-> Carousels(chatIntent),
                                items |-> built]
                /\ chatItems' = EmptyDict
                /\ chatIntent' = "none"
           ELSE /\ chatPhase' = "get"
                /\ chatItems' = built
                /\ UNCHANGED <<chatResp, chatIntent>>
    /\ chatTodo' = Tail(chatTodo)
    /\ itemLive' = NoLive
    /\ item' = NoItem
    /\ UNCHANGED <<LIVE, pass, wsVars, chatReq, numVars, stepVars, actionResp>>

(***************************************************************************)
(* The display strings of the table (src/app.py 79-104, 209-233).  A       *)
(* string is a sequence of one-character strings; a real number is the     *)
(* integer count of its thousandths.                                       *)
(***************************************************************************)
\* Passes made over the two entries whose text is modelled.
MaxTicks == 2

DigitChars == <<"0", "1", "2", "3", "4", "5", "6", "7", "8", "9">>

IsDigit(ch) == \E k \in DOMAIN DigitChars : DigitChars[k] = ch

DigitValue(ch) == (CHOOSE k \in DOMAIN DigitChars : DigitChars[k] = ch) - 1

\* str(n) of an integer n >= 0, as f"{n}" writes it.
RECURSIVE Str(_)
Str(n) ==
    IF n < 10 THEN <<DigitChars[n + 1]>>
    ELSE Str(n \div 10) \o <<DigitChars[(n % 10) + 1]>>

\* int(s) of a string of digits.
RECURSIVE IntOf(_)
IntOf(s) ==
    IF s = <<>> THEN 0
    ELSE 10 * IntOf(SubSeq(s, 1, Len(s) - 1)) + DigitValue(s[Len(s)])

\* s.replace(ch, "")
Remove(s, ch) == SelectSeq(s, LAMBDA x : x # ch)

\* s.split()[0]: the first run of characters that are not whitespace.
Split0(s) ==
    LET start == CHOOSE i \in 1..(Len(s) + 1) :
                     /\ \A j \in 1..(i - 1) : s[j] \in Whitespace
                     /\ i = Len(s) + 1 \/ s[i] \notin Whitespace
        stop == CHOOSE i \in start..(Len(s) + 1) :
                     /\ \A j \in start..(i - 1) : s[j] \notin Whitespace
                     /\ i = Len(s) + 1 \/ s[i] \in Whitespace
    IN  SubSeq(s, start, stop - 1)

\* Three digits of a group below 1000.
Group3(k) ==
    <<DigitChars[(k \div 100) + 1], DigitChars[((k \div 10) % 10) + 1], DigitChars[(k % 10) + 1]>>

\* f"{n:,}": the digits in groups of three, a comma between groups.
RECURSIVE Grouped(_)
Grouped(n) ==
    IF n < 1000 THEN Str(n)
    ELSE Grouped(n \div 1000) \o <<",">> \o Group3(n % 1000)

\* line 83: f"{n} uses"
InitUses(n) == Str(n) \o <<" ", "u", "s", "e", "s">>

\* Mutant of FormatUses: the groups are separated by blanks.
FormatUsesBlank(n) ==
    (IF n < 1000 THEN Str(n) ELSE Str(n \div 1000) \o <<" ">> \o Group3(n % 1000))
    \o <<" ", "u", "s", "e", "s">>

\* line 213: f"{uses:,} uses"
FormatUses(n) == Grouped(n) \o <<" ", "u", "s", "e", "s">>

\* line 211: int(v["primary_value"].split()[0].replace(",", ""))
ParseUses(text) == IntOf(Remove(Split0(text), ","))

\* lines 84, 214: f"+{g}% this week"
Growth(g) == <<"+">> \o Str(g) \o <<"%", " ", "t", "h", "i", "s", " ", "w", "e", "e", "k">>

Rupee == "₹"

Abs(x) == IF x < 0 THEN 0 - x ELSE x

Max(a, b) == IF a >= b THEN a ELSE b

\* The hundredths a value of x thousandths rounds to; a value halfway between
\* two hundredths goes the way its binary representation falls.
Hundredths(x) ==
    IF x % 10 = 5 THEN {x \div 10, (x \div 10) + 1}
    ELSE IF x % 10 < 5 THEN {x \div 10}
    ELSE {(x \div 10) + 1}

\* The digits of c hundredths: "d.dd"
Decimal2(c) ==
    Str(c \div 100) \o <<".">> \o <<DigitChars[((c \div 10) % 10) + 1], DigitChars[(c % 10) + 1]>>

\* f"{x:.2f}": the strings the format can give for x thousandths.
Fixed2(x) ==
    {(IF x < 0 THEN <<"-">> ELSE <<>>) \o Decimal2(c) : c \in Hundredths(Abs(x))}

\* f"{x:+.2f}": the same with the sign always written.
SignedFixed2(x) ==
    {(IF x < 0 THEN <<"-">> ELSE <<"+">>) \o Decimal2(c) : c \in Hundredths(Abs(x))}

\* float(s) of a decimal string with an optional sign, in thousandths.
Float(s) ==
    LET neg == s # <<>> /\ s[1] = "-"
        body == IF s # <<>> /\ s[1] \in {"-", "+"} THEN Tail(s) ELSE s
        dot == IF \E i \in DOMAIN body : body[i] = "."
               THEN CHOOSE i \in DOMAIN body : body[i] = "."
               ELSE Len(body) + 1
        whole == IntOf(SubSeq(body, 1, dot - 1))
        frac == SubSeq(body, dot + 1, Len(body))
        thousandths == IntOf(SubSeq(frac \o <<"0", "0", "0">>, 1, 3))
        mag == (1000 * whole) + thousandths
    IN  IF neg THEN 0 - mag ELSE mag

\* line 229: the floor of the walk, 1.0
Floor == 1000

\* Mutant of Walk: the price follows the drift below the floor.
WalkUnclamped(o, d) == o + d

\* line 229: new = max(1.0, old + random.uniform(-2.5, 2.5)), d the draw
Walk(o, d) == Max(Floor, o + d)

\* lines 229, 230: the bound 2.5 of random.uniform(-2.5, 2.5)
MaxDrift == 2500

\* line 212: the bound of random.randint(0, 120)
MaxIncrement == 120

\* Draws of random.uniform(-2.5, 2.5) for the drift (line 229).
Drifts == {0 - MaxDrift, 0 - 1005, 0, 4, MaxDrift}

\* Mutant of Percents: the change is drawn by random.uniform(-25, 25).
PercentsTenfold == {0 - (10 * MaxDrift), 0 - 4, 1235, 10 * MaxDrift}

\* Draws of random.uniform(-2.5, 2.5) for the change (lines 230, 102).
Percents == {0 - MaxDrift, 0 - 4, 1235, MaxDrift}

\* Draws of random.randint(0, 120) (line 212) and random.randint(1, 30).
Increments == {0, MaxIncrement}

Growths == {1, 30}

\* line 228: old = float(LIVE[s["id"]]["primary_value"].replace("₹", ""))
ParsePrice(text) == Float(Remove(text, Rupee))

\* One pass of live_engine over the template's and the stock's entry.
live_engine_values ==
    /\ ticks < MaxTicks
    /\ ticks' = ticks + 1
    /\ \E inc \in Increments, g \in Growths :
          /\ uses' = ParseUses(tplEntry.primary_value) + inc
          /\ tplEntry' = [primary_value |-> FormatUses(uses'),
                          secondary_value |-> Growth(g)]
    /\ \E d \in Drifts, pct \in Percents :
          /\ old' = ParsePrice(stockEntry.primary_value)
          /\ \E price \in Fixed2(Walk(old', d)), change \in SignedFixed2(pct) :
                stockEntry' = [primary_value |-> <<Rupee>> \o price,
                               secondary_value |-> change \o <<"%">>]
    /\ UNCHANGED <<LIVE, pass, wsVars, chatVars, stepVars, threadVars, actionResp>>

(***************************************************************************)
(* Specifications.                                                         *)
(***************************************************************************)
\* The connections that are opened.
Conns == {"c1"}

\* The tasks before any of them has run.
InitTasks ==
    /\ LIVE = init_live_state
    /\ pass = 0
    /\ wsState = [c \in AllConns |-> "Idle"]
    /\ pc = [c \in AllConns |-> "idle"]
    /\ subscribed = [c \in AllConns |-> <<>>]
    /\ replaced = [c \in AllConns |-> {}]
    /\ inbox = [c \in AllConns |-> <<>>]
    /\ clientClosed = [c \in AllConns |-> FALSE]
    /\ outmsg = [c \in AllConns |-> NoMsg]
    /\ sentIter = [c \in AllConns |-> <<>>]
    /\ chatReq = <<>>
    /\ chatResp = NoResp
    /\ ticks = 0
    /\ old = 0
    /\ uses = 0
    /\ tickPos = 0
    /\ engineTask = "running"
    /\ chatPhase = "idle"
    /\ chatIntent = "none"
    /\ chatTodo = <<>>
    /\ itemLive = NoLive
    /\ item = NoItem
    /\ chatItems = EmptyDict
    /\ actionResp = [ok |-> FALSE, action_name |-> "None", item_id |-> "None"]

\* init_live_state's draw for the two entries whose text the stream protocol
\* and the router carry along unread: uniform(200, 3500) gave 200.0,
\* uniform(-2.5, 2.5) gave 0.0, and the two randint calls gave 1000 and 1.
Init ==
    /\ InitTasks
    /\ stockEntry = [primary_value |-> <<Rupee>> \o Decimal2(20000),
                     secondary_value |-> <<"+">> \o Decimal2(0) \o <<"%">>]
    /\ tplEntry = [primary_value |-> InitUses(1000), secondary_value |-> Growth(1)]

WsNext(c) ==
    \/ Accept(c)
    \/ Receive(c)
    \/ SendSubscribed(c)
    \/ SendUpdate(c)
    \/ \E f \in Frames : ClientSend(c, f)
    \/ ClientClose(c)

\* The stream protocol of one connection beside the Tick Engine.
Next ==
    \/ live_engine
    \/ \E c \in Conns : WsNext(c)

Spec == Init /\ [][Next]_vars

\* The event loop resumes a handler whose await has ended: a receive ends
\* (line 257 bounds it by the timeout) and a send completes.  Nothing is
\* assumed of the client or of the Tick Engine.
Fairness ==
    \A c \in Conns : /\ WF_vars(Receive(c))
                     /\ WF_vars(SendSubscribed(c))
                     /\ WF_vars(SendUpdate(c))

\* One frame of each kind.
FewFrames ==
    MalformedFrames \cup NonObjectFrames
    \cup {Frame("json", "object", "ping", "absent", <<>>),
          Frame("json", "object", "subscribe", "number", <<>>),
          Frame("json", "object", "subscribe", "array", <<>>),
          Frame("json", "object", "subscribe", "array", <<"zzz", "htl_1">>),
          Frame("json", "object", "subscribe", "array", <<"stk_TCS">>)}

\* Every task of the program: the Tick Engine, a connection, chat requests.
TableNext ==
    \/ live_engine
    \/ \E c \in Conns :
          \/ Accept(c)
          \/ Receive(c)
          \/ SendSubscribed(c)
          \/ SendUpdate(c)
          \/ \E f \in FewFrames : ClientSend(c, f)
          \/ ClientClose(c)
    \/ \E m \in FewMessages : ChatPost(m)
    \/ chat
    \/ \E payload \in Payloads : action(payload)

TableSpec == Init /\ [][TableNext]_vars

\* The stream protocol with one frame of each kind, under fair scheduling.
FairNext ==
    \/ live_engine
    \/ \E c \in Conns :
          \/ Accept(c)
          \/ Receive(c)
          \/ SendSubscribed(c)
          \/ SendUpdate(c)
          \/ \E f \in FewFrames : ClientSend(c, f)
          \/ ClientClose(c)

FairSpec == Init /\ [][FairNext]_vars /\ Fairness

\* The intent router alone, on every message of the bounded set.
RouteNext ==
    \/ \E m \in RouteMessages : ChatPost(m)
    \/ chat

RouteSpec == Init /\ [][RouteNext]_vars

\* Prices (in hundredths) and usage counts the two entries start from: draws
\* of init_live_state (lines 82, 100) and values that earlier passes left.
StartPrices == {250, 351, 20000}

StartUses == {1000}

LaterUses == {999900}

\* The two entries as init_live_state wrote them, or as a pass left them.
ValuesInit ==
    /\ InitTasks
    /\ \E c \in StartPrices, pct \in {0 - 4} :
          \E change \in SignedFixed2(pct) :
             stockEntry = [primary_value |-> <<Rupee>> \o Decimal2(c),
                           secondary_value |-> change \o <<"%">>]
    /\ \/ \E n \in StartUses :
             tplEntry = [primary_value |-> InitUses(n), secondary_value |-> Growth(1)]
       \/ \E n \in LaterUses :
             tplEntry = [primary_value |-> FormatUses(n), secondary_value |-> Growth(1)]

\* The Tick Engine alone, on the text of a template's and a stock's entry.
ValuesNext == live_engine_values

ValuesSpec == ValuesInit /\ [][ValuesNext]_vars

\* Frames of the stream while the pass runs store by store: a subscribe to a
\* hotel and a stock, one to nothing, and a message of another type.
StepFrames ==
    {Frame("json", "object", "subscribe", "array", <<"htl_1", "stk_TCS">>),
     Frame("json", "object", "subscribe", "array", <<>>),
     Frame("json", "object", "ping", "absent", <<>>)}

\* The event loop: the Tick Engine makes its stores one after the other, and a
\* connection's handler runs only while the engine is suspended.
StepNext ==
    \/ live_engine_store
    \/ /\ Suspended(tickPos)
       /\ \E c \in Conns :
             \/ Accept(c)
             \/ Receive(c)
             \/ SendSubscribed(c)
             \/ SendUpdate(c)
    \/ \E c \in Conns :
          \/ \E f \in StepFrames : ClientSend(c, f)
          \/ ClientClose(c)

StepSpec == Init /\ [][StepNext]_vars

\* The event loop resumes the Tick Engine: once started (line 240) its task
\* runs from store to store without awaiting, and the sleep of line 235 ends
\* after 0.6 s, the handlers giving the loop back at each of their awaits.
StepFairSpec == Init /\ [][StepNext]_vars /\ WF_vars(live_engine_store)

\* The Tick Engine on the event loop's thread and chat on a worker thread,
\* switched between any two of their statements.
ThreadNext ==
    \/ live_engine_store
    \/ \E m \in FewMessages : ChatPost(m)
    \/ chat_route
    \/ build_item_live
    \/ build_item_primary
    \/ build_item_secondary

ThreadSpec == Init /\ [][ThreadNext]_vars

\* Exceptions a statement of the pass can end with: int() or float() on a
\* text that is no number, a missing key, the allocator.
EngineErrors == {"ValueError", "KeyError", "MemoryError"}

\* The Tick Engine with a failure in the recomputation of an item.
FaultNext ==
    \/ live_engine_store
    \/ \E exc \in EngineErrors : live_engine_raises(exc)

FaultSpec == Init /\ [][FaultNext]_vars

\* Frames of two clients: a subscribe to a hotel, one to a stock, and a
\* message of another type.
PairFrames ==
    {Frame("json", "object", "subscribe", "array", <<"htl_1">>),
     Frame("json", "object", "subscribe", "array", <<"stk_TCS">>),
     Frame("json", "object", "ping", "absent", <<>>)}

\* Two connections, each a task of ws_live, beside the Tick Engine.
PairNext ==
    \/ live_engine
    \/ \E c \in AllConns :
          \/ Accept(c)
          \/ Receive(c)
          \/ SendSubscribed(c)
          \/ SendUpdate(c)
          \/ \E f \in PairFrames : ClientSend(c, f)
          \/ ClientClose(c)

PairSpec == Init /\ [][PairNext]_vars

(***************************************************************************)
(* What the claims speak of.                                               *)
(***************************************************************************)
\* The ids of a request that the catalog knows, every occurrence kept.
ValidOf(l) == SelectSeq(l, LAMBDA i : i \in CatalogIds)

\* A list with only the first occurrence of each of its elements.
RECURSIVE FirstOccurrences(_)
FirstOccurrences(l) ==
    IF l = <<>> THEN <<>>
    ELSE <<Head(l)>> \o FirstOccurrences(SelectSeq(Tail(l), LAMBDA x : x # Head(l)))

\* A request that mixes known and unknown ids.
IsMixed(l) ==
    /\ \E k \in DOMAIN l : l[k] \in CatalogIds
    /\ \E k \in DOMAIN l : l[k] \notin CatalogIds

\* The handler of c is about to receive this frame.
AboutToReceive(c) == wsState[c] = "Open" /\ pc[c] = "recv" /\ inbox[c] # <<>>

\* This step is the handler of c receiving the frame at the head of its inbox.
Receives(c) == AboutToReceive(c) /\ inbox'[c] # inbox[c]

\* The frame is a subscribe message with a list of ids.
IsSubscribe(f) ==
    f.text = "json" /\ f.kind = "object" /\ f.type = "subscribe" /\ f.ids_kind = "array"

\* The frame cannot be parsed: not JSON, not an object, or item_ids no list.
IsUnparseable(f) ==
    \/ f.text = "malformed"
    \/ f.kind # "object"
    \/ f.type = "subscribe" /\ f.ids_kind = "number"

\* The frame is a JSON object of another type than subscribe, or of none.
IsOtherType(f) == f.text = "json" /\ f.kind = "object" /\ f.type # "subscribe"

\* The messages of connection c on the wire or about to be: those sent in
\* this iteration and the one being sent.
Wire(c) == Range(sentIter[c]) \cup {outmsg[c]}

Updates(c) == {m \in Wire(c) : m.type = "update"}

\* C1: a subscribe whose item_ids mixes known and unknown ids is answered by a
\* 'subscribed' confirmation listing the known ids of the request, each once,
\* in the order of their first occurrence.
C1_ConfirmationListsEachValidIdOnce ==
    [][\A c \in Conns :
         (Receives(c) /\ IsSubscribe(Head(inbox[c])) /\ IsMixed(Head(inbox[c]).item_ids))
         => outmsg'[c] =
              SubscribedMsg(FirstOccurrences(ValidOf(Head(inbox[c]).item_ids)))]_vars

\* C2: every 'update' carries exactly the ids the most recent subscribe
\* accepted: the subscription changes only when a subscribe is received, to
\* the known ids of that request, and an update's keys are the subscription.
C2_UpdateKeysAreAcceptedIds ==
    /\ [](\A c \in Conns : \A m \in Updates(c) :
            DOMAIN m.data = Range(subscribed[c]) /\ DOMAIN m.data \subseteq CatalogIds)
    /\ [][\A c \in Conns :
            IF Receives(c) /\ wsState'[c] = "Open" /\ Head(inbox[c]).type = "subscribe"
            THEN Range(subscribed'[c])
                   = Range(Requested(Head(inbox[c]))) \cap CatalogIds
            ELSE subscribed'[c] = subscribed[c]]_vars

\* C2 witness: a subscription holding "stk_TCS" was replaced by one for
\* "htl_1", and an update for "htl_1" alone was sent after the confirmation.
C2_Witness ==
    \E c \in Conns :
        /\ wsState[c] = "Open" /\ pc[c] = "recv"
        /\ replaced[c] = {"stk_TCS"}
        /\ Len(sentIter[c]) = 2
        /\ sentIter[c][1] = SubscribedMsg(<<"htl_1">>)
        /\ sentIter[c][2].type = "update"
        /\ DOMAIN sentIter[c][2].data = {"htl_1"}

\* C3: while the subscription of a connection is empty no 'update' is built
\* or sent, and an empty subscription becomes non-empty only by receiving a
\* subscribe with at least one known id.
C3_EmptySubscriptionPushesNothing ==
    /\ [](\A c \in Conns : subscribed[c] = <<>> => Updates(c) = {})
    /\ [][\A c \in Conns :
            (subscribed[c] = <<>> /\ subscribed'[c] # <<>>)
            => /\ Receives(c)
               /\ IsSubscribe(Head(inbox[c]))
               /\ \E k \in DOMAIN Head(inbox[c]).item_ids :
                      Head(inbox[c]).item_ids[k] \in CatalogIds]_vars

\* C3 witness: a subscribe of unknown ids only was confirmed with an empty
\* list and the iteration ended without an update.
C3_Witness ==
    \E c \in Conns :
        /\ wsState[c] = "Open" /\ pc[c] = "recv"
        /\ subscribed[c] = <<>>
        /\ sentIter[c] = <<SubscribedMsg(<<>>)>>
        /\ replaced[c] # {}

\* C4: a frame that cannot be parsed is swallowed: the connection stays Open,
\* its subscription is unchanged and the iteration goes on to its push step.
C4_UnparseableFrameIsSwallowed ==
    [][\A c \in Conns :
         (AboutToReceive(c) /\ IsUnparseable(Head(inbox[c])) /\ pc'[c] # pc[c])
         => /\ wsState'[c] = "Open"
            /\ subscribed'[c] = subscribed[c]
            /\ pc'[c] \in {"recv", "send_update"}]_vars

\* C5: the keys of the Live State Table are the catalog's ids, in every state.
C5_LiveKeysAreCatalogIds ==
    /\ DOMAIN LIVE = CatalogIds
    /\ Cardinality(DOMAIN LIVE) = Len(TEMPLATES) + Len(HOTELS) + Len(STOCKS)

\* C5 witness: a tick pass has run, a chat request was answered with live
\* values of that pass and a connection has sent an update.
C5_Witness ==
    /\ pass >= 1
    /\ chatResp.intent = "hotels"
    /\ chatResp.items["htl_1"].primary_value = pass
    /\ \E c \in Conns : \E k \in DOMAIN sentIter[c] : sentIter[c][k].type = "update"

\* C6: a subscribe replaces the subscription: an id of the earlier
\* subscription that the new request does not name is in no later
\* confirmation or update, and not in the subscription.
C6_SubscribeReplacesWholesale ==
    /\ [](\A c \in Conns :
            /\ Range(subscribed[c]) \cap replaced[c] = {}
            /\ \A m \in Wire(c) :
                  /\ Range(m.item_ids) \cap replaced[c] = {}
                  /\ DOMAIN m.data \cap replaced[c] = {}
                  /\ m.type = "subscribed" => m.item_ids = subscribed[c])
    /\ [][\A c \in Conns :
            (Receives(c) /\ IsSubscribe(Head(inbox[c])))
            => subscribed'[c] = ValidOf(Head(inbox[c]).item_ids)]_vars

\* C6 witness: after a subscription with "htl_1", a subscribe for "stk_TCS"
\* was confirmed and an update for "stk_TCS" was sent.
C6_Witness ==
    \E c \in Conns :
        /\ replaced[c] = {"htl_1"}
        /\ subscribed[c] = <<"stk_TCS">>
        /\ Len(sentIter[c]) = 2
        /\ sentIter[c][1] = SubscribedMsg(<<"stk_TCS">>)
        /\ DOMAIN sentIter[c][2].data = {"stk_TCS"}

\* C7: a JSON object of another type is ignored: no reply, the subscription
\* and the connection as they were, and the push step of a timeout: an update
\* of the subscribed entries when the subscription is non-empty, else nothing.
C7_OtherTypeIsIgnored ==
    [][\A c \in Conns :
         (AboutToReceive(c) /\ IsOtherType(Head(inbox[c])) /\ inbox'[c] # inbox[c])
         => /\ wsState'[c] = "Open"
            /\ subscribed'[c] = subscribed[c]
            /\ sentIter'[c] = <<>>
            /\ IF subscribed[c] = <<>>
               THEN pc'[c] = "recv" /\ outmsg'[c] = NoMsg
               ELSE /\ pc'[c] = "send_update"
                    /\ outmsg'[c].type = "update"
                    /\ outmsg'[c].data = [i \in Range(subscribed[c]) |-> LIVE[i]]]_vars

\* C7 witness: a connection with a subscription is about to receive a frame
\* of another type.
C7_Witness ==
    \E c \in Conns :
        /\ AboutToReceive(c)
        /\ IsOtherType(Head(inbox[c]))
        /\ subscribed[c] # <<>>

\* The number of 'update' messages sent in the current iteration of c.
UpdatesSent(c) == Cardinality({k \in DOMAIN sentIter[c] : sentIter[c][k].type = "update"})

\* C8: an iteration sends at most one 'update', an iteration of an open
\* connection with a subscription ends having sent exactly one, and a
\* connection that stays open with a subscription sends updates again and
\* again, whatever the client does or does not send.
C8_SilenceNeverBlocksPushing ==
    /\ [](\A c \in Conns :
            /\ UpdatesSent(c) <= 1
            /\ (wsState[c] = "Open" /\ pc[c] = "recv" /\ subscribed[c] # <<>>)
               => UpdatesSent(c) = 1)
    /\ \A c \in Conns :
          <>[](wsState[c] = "Open" /\ subscribed[c] # <<>>)
          => []<><<SendUpdate(c)>>_vars

\* C8 witness: an iteration that began with a timeout (nothing received, no
\* confirmation sent) has sent its update.
C8_Witness ==
    \E c \in Conns :
        /\ wsState[c] = "Open" /\ pc[c] = "recv" /\ ~clientClosed[c]
        /\ inbox[c] = <<>>
        /\ Len(sentIter[c]) = 1
        /\ sentIter[c][1].type = "update"

\* C9: once the client has closed the connection the task ends in the Closed
\* state, not by an error, and nothing is sent on a Closed connection.
C9_ClosureEndsTheTaskCleanly ==
    /\ [][\A c \in Conns :
            (wsState[c] = "Open" /\ clientClosed[c] /\ wsState'[c] # "Open")
            => wsState'[c] = "Closed"]_vars
    /\ [][\A c \in Conns :
            wsState[c] = "Closed" => wsState'[c] = "Closed" /\ sentIter'[c] = sentIter[c]]_vars

\* The keyword sets in the order route_intent is said to test them.
Priority ==
    <<[selection |-> "templates", keys |-> TemplateKeys],
      [selection |-> "hotels", keys |-> HotelKeys],
      [selection |-> "stocks", keys |-> StockKeys],
      [selection |-> "all", keys |-> AllKeys]>>

\* The selection of the first keyword set with a keyword in the trimmed,
\* lower-cased message, "all" when there is none.
FirstMatch(message) ==
    LET q == Lower(Strip(message))
        hits == {n \in DOMAIN Priority : AnyIn(Priority[n].keys, q)}
    IN  IF hits = {} THEN "all"
        ELSE Priority[CHOOSE n \in hits : \A o \in hits : n <= o].selection

\* C10: the intent of an answered chat request is the selection of the first
\* keyword set, in the order templates, hotels, stocks, all, that has a keyword
\* in the message, "all" when none has; it is one of the four selections, and
\* "show me hotels in goa" is routed to "hotels"; the match is on the
\* lower-cased text (" LOGO" is a template request) and on substrings
\* ("history" holds "story"; "buyho" is a stock request, "buyhotel" a hotel one).
C10_RouteIntentFirstMatchWins ==
    chatResp.intent \notin {"none", "pending"}
    => /\ chatResp.intent = FirstMatch(chatReq)
       /\ chatResp.intent \in {"templates", "hotels", "stocks", "all"}
       /\ chatReq = ShowMeHotelsInGoa => chatResp.intent = "hotels"
       /\ chatReq = <<" ", "L", "O", "G", "O">> => chatResp.intent = "templates"
       /\ chatReq = <<"h", "i", "s", "t", "o", "r", "y">> => chatResp.intent = "templates"
       /\ chatReq = <<"b", "u", "y", "h", "o">> => chatResp.intent = "stocks"
       /\ chatReq = <<"b", "u", "y", "h", "o", "t", "e", "l">>
             => chatResp.intent = "hotels"

\* C10 witness: "show me hotels in goa" was answered with the hotel carousel.
C10_Witness ==
    /\ chatReq = ShowMeHotelsInGoa
    /\ chatResp.intent = "hotels"
    /\ chatResp.carousels = <<"hotels">>

\* The price a stock's entry shows, in thousandths.
PriceShown == ParsePrice(stockEntry.primary_value)

\* C11: after any number of tick passes, from any starting price and for any
\* drifts drawn in [-2.5, 2.5], the price stored in a stock's entry is never
\* below 1.0.
C11_StockPriceNeverBelowFloor == PriceShown >= Floor

\* A pass found the price above the floor, drew a drift that leads below it,
\* and stored the floor.
C11_Witness ==
    /\ ticks > 0
    /\ old > Floor
    /\ \A d \in Drifts : old + d # Floor
    /\ PriceShown = Floor

\* The usage count a template's primary_value shows: the number its digits
\* spell.
CountShown(text) == IntOf(SelectSeq(text, IsDigit))

\* C19: the usage count a template's primary_value shows never decreases: a
\* pass adds an increment in [0, 120] to the count parsed back from the stored
\* text, so the count shown after a pass is the count shown before it plus 0
\* to 120, and parsing the stored text returns the count that was written.
C19_UsageCountGrowsByAtMost120 ==
    [][ticks' # ticks =>
         LET before == CountShown(tplEntry.primary_value)
             after == CountShown(tplEntry'.primary_value)
         IN  /\ after - before \in 0..MaxIncrement
             /\ after = uses'
             /\ ParseUses(tplEntry'.primary_value) = uses']_vars

\* A pass parsed a count written with a comma, "1,120 uses", and added 120.
C19_Witness ==
    /\ ticks >= 2
    /\ uses = 1240
    /\ tplEntry.primary_value = <<"1", ",", "2", "4", "0", " ", "u", "s", "e", "s">>

\* The change a stock's secondary_value shows, in thousandths of a percent.
ChangeShown == Float(Remove(stockEntry.secondary_value, "%"))

\* C20, as claimed: the change written by a pass is computed from the new price
\* and a reference fixed at the first tick, so once the first pass has run, a
\* pass that stores the price it found stores the change it found.
C20_ChangeFollowsPrice ==
    [][(ticks > 0 /\ ticks' # ticks
        /\ stockEntry'.primary_value = stockEntry.primary_value)
       => stockEntry'.secondary_value = stockEntry.secondary_value]_vars

\* C20, amended: the change written by a pass is a draw from [-2.5, 2.5] of its
\* own, written with its sign and two decimals, whatever the price is.
C20_ChangeIsADrawOfItsOwn ==
    ticks > 0 =>
        /\ stockEntry.secondary_value[1] \in {"+", "-"}
        /\ stockEntry.secondary_value[Len(stockEntry.secondary_value)] = "%"
        /\ ChangeShown \in (0 - MaxDrift)..MaxDrift

\* A pass lowered the price and wrote the largest gain as its change.
C20_Witness ==
    /\ ticks > 0
    /\ PriceShown < old
    /\ ChangeShown = MaxDrift

\* C12: every update pushed by ws_live reflects a completed tick pass: each of
\* its entries has its three fields written by one pass, all its entries are of
\* the same pass, and the snapshot is built while no pass is under way.
C12_UpdateReflectsACompletedPass ==
    /\ [](\A c \in Conns : \A m \in Updates(c) :
            \E p \in 0..MaxPass : \A i \in DOMAIN m.data : m.data[i] = Entry(p))
    /\ [][\A c \in Conns :
            (outmsg'[c].type = "update" /\ outmsg'[c] # outmsg[c])
            => /\ tickPos = 0
               /\ outmsg'[c].data =
                      Snapshot(subscribed'[c], [i \in DOMAIN LIVE |-> Entry(pass)])]_vars

\* An update with a hotel's and a stock's entry is being sent while the next
\* pass has a store of the stock's entry behind it.
C12_Witness ==
    \E c \in Conns :
       /\ pc[c] = "send_update"
       /\ DOMAIN outmsg[c].data = {"htl_1", "stk_TCS"}
       /\ outmsg[c].data["stk_TCS"] = Entry(0)
       /\ LIVE["stk_TCS"].primary_value = 1
       /\ LIVE["stk_TCS"].updated_at = 0

\* C13: every item a chat response returns carries a primary_value and a
\* secondary_value written by the same tick pass, or both by initialisation.
C13_ChatItemsAreOfOnePass ==
    \A i \in DOMAIN chatResp.items :
       chatResp.items[i].primary_value = chatResp.items[i].secondary_value

\* C14: a failure while one item is recomputed does not stop the Tick Engine:
\* its task keeps running, so that the remaining items of the pass and the
\* later passes are still recomputed.
C14_FailureDoesNotStopTheEngine == engineTask = "running"

\* C15: the Tick Engine is the only writer of the table after initialisation:
\* a step of ws_live (a subscribe, an ignored message, a timeout, a push, a
\* closure), of chat or of action leaves every entry of the table as it was,
\* so a step that changes the table is a step of none of them.
C15_OnlyTheTickEngineWrites ==
    [][(wsVars' # wsVars \/ chatVars' # chatVars \/ actionResp' # actionResp)
       => LIVE' = LIVE]_vars

\* The table has been rewritten by a pass, chat has answered from it, action
\* has answered, and the connection is pushing a stock's entry.
C15_Witness ==
    /\ pass > 0
    /\ chatResp.intent = "stocks"
    /\ \A i \in DOMAIN chatResp.items : chatResp.items[i].primary_value = pass
    /\ actionResp.ok
    /\ \E c \in Conns : pc[c] = "send_update" /\ subscribed[c] = <<"stk_TCS">>

\* This step is a step of connection c: of its handler or of its client.
StepOf(c) ==
    \/ wsState'[c] # wsState[c]
    \/ pc'[c] # pc[c]
    \/ inbox'[c] # inbox[c]
    \/ clientClosed'[c] # clientClosed[c]
    \/ subscribed'[c] # subscribed[c]
    \/ outmsg'[c] # outmsg[c]
    \/ sentIter'[c] # sentIter[c]

\* C16: connections are isolated: a step of one connection (a subscribe, an
\* ignored message, a closure) leaves the subscription, the state and the
\* messages of every other connection unchanged, and every update of a
\* connection holds the ids of that connection's own subscription only.
C16_ConnectionsAreIsolated ==
    /\ [](\A c \in AllConns : \A m \in Updates(c) :
            DOMAIN m.data \subseteq Range(subscribed[c]))
    /\ [][\A c \in AllConns : \A d \in AllConns \ {c} :
            StepOf(c) => /\ subscribed'[d] = subscribed[d]
                         /\ wsState'[d] = wsState[d]
                         /\ outmsg'[d] = outmsg[d]
                         /\ sentIter'[d] = sentIter[d]]_vars

\* One connection subscribed to a hotel and was closed; the other, subscribed
\* to a stock, is pushing the stock's entry.
C16_Witness ==
    /\ wsState["c1"] = "Closed"
    /\ subscribed["c1"] = <<"htl_1">>
    /\ wsState["c2"] = "Open"
    /\ subscribed["c2"] = <<"stk_TCS">>
    /\ pc["c2"] = "send_update"
    /\ DOMAIN outmsg["c2"].data = {"stk_TCS"}

\* The frame is a subscribe message: a JSON object of type subscribe whose
\* item_ids is a list, or is absent.
IsSubscribeMessage(f) ==
    f.text = "json" /\ f.kind = "object" /\ f.type = "subscribe" /\ f.ids_kind # "number"

\* The confirmations among the messages sent in this iteration.
Confirmations(c) == {k \in DOMAIN sentIter[c] : sentIter[c][k].type = "subscribed"}

\* C17: for each subscribe message received on a connection that stays open,
\* one 'subscribed' confirmation is sent, also when no id is accepted, before
\* any update built from the new subscription; when ids are accepted, the
\* first such update is sent in the same iteration, directly after it.
C17_OneConfirmationThenTheUpdate ==
    /\ [](\A c \in Conns :
            /\ Confirmations(c) \subseteq {1}
            /\ Len(sentIter[c]) <= 2
            /\ pc[c] = "send_subscribed" => sentIter[c] = <<>>
            /\ Len(sentIter[c]) = 2 => /\ Confirmations(c) = {1}
                                       /\ sentIter[c][2].type = "update")
    /\ [][\A c \in Conns :
            /\ (Receives(c) /\ IsSubscribeMessage(Head(inbox[c])) /\ wsState'[c] = "Open")
               => /\ pc'[c] = "send_subscribed"
                  /\ outmsg'[c] = SubscribedMsg(subscribed'[c])
                  /\ sentIter'[c] = <<>>
            /\ (pc[c] = "send_subscribed" /\ pc'[c] # pc[c] /\ wsState'[c] = "Open")
               => /\ sentIter'[c] = <<SubscribedMsg(subscribed[c])>>
                  /\ subscribed'[c] = subscribed[c]
                  /\ IF subscribed[c] # <<>>
                     THEN /\ pc'[c] = "send_update"
                          /\ outmsg'[c].type = "update"
                          /\ DOMAIN outmsg'[c].data = Range(subscribed[c])
                     ELSE pc'[c] = "recv"
            /\ (pc[c] = "send_update" /\ pc'[c] # pc[c] /\ wsState'[c] = "Open")
               => sentIter'[c] = Append(sentIter[c], outmsg[c])]_vars

\* An iteration received a subscribe to a hotel and sent the confirmation and
\* then the update with the hotel's entry.
C17_Witness ==
    \E c \in Conns :
       /\ wsState[c] = "Open"
       /\ pc[c] = "recv"
       /\ Len(sentIter[c]) = 2
       /\ sentIter[c][1] = SubscribedMsg(<<"htl_1">>)
       /\ sentIter[c][2].type = "update"
       /\ DOMAIN sentIter[c][2].data = {"htl_1"}

\* C18: the Tick Engine runs forever and its passes never overlap: the stores
\* of a pass are made in order, the next pass starts only after the last store
\* of this one and the sleep, at the end of a pass every template, hotel and
\* stock entry has been rewritten by it, and every store of the pass is made
\* again and again, so every entry is rewritten infinitely often.
C18_PassesRunForeverInSequence ==
    /\ []({Stores[k].id : k \in DOMAIN Stores} = CatalogIds)
    /\ [][tickPos' # tickPos =>
            \/ tickPos' = tickPos + 1 /\ tickPos' < Len(Stores) /\ pass' = pass
            \/ /\ tickPos = Len(Stores) - 1
               /\ tickPos' = 0
               /\ pass' = NextPass(pass)
               /\ \A i \in CatalogIds : LIVE'[i] = Entry(pass')]_vars
    /\ [][LIVE' # LIVE => tickPos' # tickPos]_vars
    /\ \A k \in DOMAIN Stores : []<>(tickPos = k - 1)
    /\ []<>(tickPos = 0 /\ pass > 0)

\* A pass is complete, and the next one has made its first store.
C18_Witness ==
    /\ pass > 0
    /\ tickPos = 1
    /\ \A i \in CatalogIds : LIVE[i] = Entry(pass)

====
